---- MODULE Spec2Model ----
(***************************************************************************)
(* A model of the WOOT replica engine of toy-woot (src/src/woot.rs) and of *)
(* the pairwise exchange of operations between two replicas                *)
(* (src/src/main.rs).                                                      *)
(*                                                                         *)
(* Rust's Option<T> is modelled as a sequence of length at most one:       *)
(* None is << >> and Some(x) is << x >>.  Positions are 0-based, as in the *)
(* source; TLA+ sequences are 1-based, so element k of the source is       *)
(* seq[k + 1] here.                                                        *)
(***************************************************************************)
EXTENDS Integers, Sequences, FiniteSets, TLC

\* ------------------------------------------------------------------ bounds

\* Spec and SpecDup: the number of successful generate_ins and generate_del
\* calls, over all sites.
MaxOps == 3

\* SpecDup: the number of times an operation is executed again at a replica
\* that has already executed it.
MaxDup == 1

\* SpecCausal: the number of generate_ins calls and of successful generate_del
\* calls.  SpecThree: the number of generate_ins calls.
DeepIns == 4
DeepDel == 1

\* The keys 'a'..'z' of the editor, cut down to the glyphs the model types.
Glyphs == {"a", "b"}

\* SpecCausal and SpecThree: the one key typed in the longer runs.
DeepGlyphs == {"x"}

\* The two paired replicas: main.rs links one site to one peer port.
Sites == {1, 2}

\* SpecThree: three replicas, each sending its operations to the other two.
Replicas == {1, 2, 3}

\* i64::MIN and i64::MAX, scaled to a range the model checker's integers hold;
\* every site id and clock of the model lies strictly between them.
I64_MIN == -1000
I64_MAX == 1000

\* ------------------------------------------------------------- data model

None == << >>
Some(x) == << x >>
IsSome(o) == Len(o) = 1
Unwrap(o) == o[1]

ID(ns, ng) == [ns |-> ns, ng |-> ng]

less_than_or_equal(a, b) ==
    (a.ns <= b.ns) \/ (a.ns = b.ns /\ a.ng <= b.ng)

less_than(a, b) ==
    (a.ns < b.ns) \/ (a.ns = b.ns /\ a.ng < b.ng)

\* PartialEq for ID
id_eq(a, b) == (a.ns = b.ns) /\ (a.ng = b.ng)

CB_ID == ID(I64_MIN, 0)
CE_ID == ID(I64_MAX, 1)

Character(id, c, visible, prev_id, next_id) ==
    [id |-> id, c |-> c, visible |-> visible,
     prev_id |-> prev_id, next_id |-> next_id]

CB == Character(CB_ID, "", FALSE, None, None)
CE == Character(CE_ID, "", FALSE, None, None)

Operation(op, c, arg1, arg2) ==
    [op |-> op, c |-> c, arg1 |-> arg1, arg2 |-> arg2]

new_sequence == << CB, CE >>

new_site(id, clock) == [id |-> id, clock |-> clock, seq |-> new_sequence]

\* -------------------------------------------------------------- Sequence

RECURSIVE text(_)
text(chars) ==
    IF chars = << >> THEN ""
    ELSE IF ~Head(chars).visible THEN text(Tail(chars))
    ELSE Head(chars).c \o text(Tail(chars))

\* Sequence::pos: the 0-based position of the first element whose id is c's.
pos(chars, c) ==
    LET hits == {i \in 1..Len(chars) : chars[i].id = c.id}
    IN  IF hits = {} THEN None
        ELSE Some((CHOOSE i \in hits : \A j \in hits : i <= j) - 1)

\* insert2 that puts ch right behind the first element, whatever p is.
insert2_front(chars, ch, p) ==
    IF p >= Len(chars)
    THEN [kind |-> "Err", chars |-> chars]
    ELSE [kind |-> "Ok", chars |-> << Head(chars), ch >> \o Tail(chars)]

\* insert2 with the tail split one element late: ch lands after position p.
insert2_after(chars, ch, p) ==
    IF p >= Len(chars)
    THEN [kind |-> "Err", chars |-> chars]
    ELSE [kind |-> "Ok",
          chars |-> SubSeq(chars, 1, p + 1) \o << ch >> \o SubSeq(chars, p + 2, Len(chars))]

\* insert2 with the tail split one element early: ch lands before position
\* p - 1.
insert2_before(chars, ch, p) ==
    IF p >= Len(chars)
    THEN [kind |-> "Err", chars |-> chars]
    ELSE [kind |-> "Ok",
          chars |-> SubSeq(chars, 1, p - 1) \o << ch >> \o SubSeq(chars, p, Len(chars))]

\* Sequence::insert2: Err("out of bounds") when no element is at position p.
insert2(chars, ch, p) ==
    IF p >= Len(chars)
    THEN [kind |-> "Err", chars |-> chars]
    ELSE [kind |-> "Ok",
          chars |-> SubSeq(chars, 1, p) \o << ch >> \o SubSeq(chars, p + 1, Len(chars))]

\* Sequence::subseq: the elements strictly between c and d.  right - (left + 1)
\* is a usize subtraction: when d is not after c it underflows, which panics
\* (debug build) or wraps to a split index past the end, which panics too.
subseq(chars, c, d) ==
    LET left == pos(chars, c)
        right == pos(chars, d)
    IN  IF left = None \/ right = None
        THEN [kind |-> "Err", chars |-> << >>]
        ELSE IF Unwrap(right) < Unwrap(left) + 1
        THEN [kind |-> "Panic", chars |-> << >>]
        ELSE [kind |-> "Ok",
              chars |-> SubSeq(chars, Unwrap(left) + 2, Unwrap(right))]

\* The value of `count` after the first k elements of ith_visible's loop.
VisibleCount(chars, k) ==
    Cardinality({i \in 1..k : chars[i].visible})

\* Sequence::ith_visible: the first element at which count = p, for p > 0.
ith_visible(chars, p) ==
    IF p = 0 THEN None
    ELSE LET hits == {k \in 1..Len(chars) : VisibleCount(chars, k) = p}
         IN  IF hits = {} THEN None
             ELSE Some(chars[CHOOSE k \in hits : \A j \in hits : k <= j])

\* ------------------------------------------------------------------ Site

\* The outcome of an engine call: kind is "Ok" (the call returned Ok(op)),
\* "Err" (it returned an error), "Panic" (it panicked in subseq) or "Diverge"
\* (its recursion never ends: the stack overflows and the process aborts).
\* site is the Site as the call leaves it.
Outcome(kind, site, op) == [kind |-> kind, site |-> site, op |-> op]

\* The candidate list l of integrate_ins (lines 86-106).
Candidates(sub, cp, cn) ==
    << cp >>
    \o SelectSeq(sub, LAMBDA sc :
           /\ less_than_or_equal(Unwrap(sc.prev_id), cp.id)
           /\ less_than_or_equal(cn.id, Unwrap(sc.next_id)))
    \o << cn >>

\* The value of i after the while loop of lines 108-111 (0-based into l).
WalkIndex(l, c) ==
    CHOOSE i \in 1..(Len(l) - 1) :
        /\ ~(i < Len(l) - 1 /\ less_than(l[i + 1].id, c.id))
        /\ \A j \in 1..(i - 1) : j < Len(l) - 1 /\ less_than(l[j + 1].id, c.id)

\* Site::integrate_ins, with the pairs (cp.id, cn.id) of the calls that are
\* still on the stack.  The sequence does not change before the base case, so
\* a call that repeats the pair of a pending call recurses for ever.
RECURSIVE integrate_ins_from(_, _, _, _, _)
integrate_ins_from(site, c, cp, cn, pending) ==
    LET p == pos(site.seq, cn)
        sub == subseq(site.seq, cp, cn)
    IN  IF << cp.id, cn.id >> \in pending THEN Outcome("Diverge", site, None)
        ELSE IF p = None THEN Outcome("Err", site, None)
        ELSE IF sub.kind # "Ok" THEN Outcome(sub.kind, site, None)
        ELSE IF Len(sub.chars) = 0
        THEN LET r == insert2(site.seq, c, Unwrap(p))
             IN  IF r.kind # "Ok" THEN Outcome("Err", site, None)
                 ELSE Outcome("Ok", [site EXCEPT !.seq = r.chars],
                              Some(Operation("INS", c, Some(cp), Some(cn))))
        ELSE IF \E k \in 1..Len(sub.chars) :
                    sub.chars[k].prev_id = None \/ sub.chars[k].next_id = None
        THEN Outcome("Err", site, None)
        ELSE LET l == Candidates(sub.chars, cp, cn)
                 i == WalkIndex(l, c)
             IN  integrate_ins_from(site, c, l[i], l[i + 1],
                                    pending \cup {<< cp.id, cn.id >>})

\* pos(cp) < pos(cn) in chars, both being there: what subseq(cp, cn) needs
\* for right - (left + 1) not to underflow (lines 309-323).
Ordered(chars, cp, cn) ==
    /\ pos(chars, cp) # None /\ pos(chars, cn) # None
    /\ Unwrap(pos(chars, cp)) < Unwrap(pos(chars, cn))

\* Every call of integrate_ins that one call makes, itself first and then
\* those of the recursion of line 120 (up to the call that returns or that
\* repeats the pair of a pending call), is on an ordered pair.
RECURSIVE OrderedCalls(_, _, _, _, _)
OrderedCalls(site, c, cp, cn, pending) ==
    IF << cp.id, cn.id >> \in pending THEN TRUE
    ELSE /\ Ordered(site.seq, cp, cn)
         /\ LET sub == subseq(site.seq, cp, cn)
            IN  IF \/ Len(sub.chars) = 0
                   \/ \E k \in 1..Len(sub.chars) :
                          sub.chars[k].prev_id = None \/ sub.chars[k].next_id = None
                THEN TRUE
                ELSE LET l == Candidates(sub.chars, cp, cn)
                         i == WalkIndex(l, c)
                     IN  OrderedCalls(site, c, l[i], l[i + 1],
                                      pending \cup {<< cp.id, cn.id >>})

\* integrate_ins that counts the clock up when it returns.
integrate_ins_countup(site, c, cp, cn) ==
    LET out == integrate_ins_from(site, c, cp, cn, {})
    IN  [out EXCEPT !.site.clock = @ + 1]

integrate_ins(site, c, cp, cn) == integrate_ins_from(site, c, cp, cn, {})

\* generate_ins with the site id written into both fields of the new id.
generate_ins_site_as_clock(site, p, ch) ==
    LET counted == [site EXCEPT !.clock = @ + 1]
        found_p == ith_visible(site.seq, p - 1)
        found_n == ith_visible(site.seq, p)
        cp == IF IsSome(found_p) THEN Unwrap(found_p) ELSE CB
        cn == IF IsSome(found_n) THEN Unwrap(found_n) ELSE CE
        c == Character(ID(site.id, site.id), ch, TRUE,
                       Some(cp.id), Some(cn.id))
    IN  integrate_ins(counted, c, cp, cn)

\* Site::generate_ins, for p >= 1 (main.rs calls it with px + 1).
generate_ins(site, p, ch) ==
    LET counted == [site EXCEPT !.clock = @ + 1]
        found_p == ith_visible(site.seq, p - 1)
        found_n == ith_visible(site.seq, p)
        cp == IF IsSome(found_p) THEN Unwrap(found_p) ELSE CB
        cn == IF IsSome(found_n) THEN Unwrap(found_n) ELSE CE
        c == Character(ID(site.id, counted.clock), ch, TRUE,
                       Some(cp.id), Some(cn.id))
    IN  integrate_ins(counted, c, cp, cn)

\* The neighbours generate_ins(p, ch) takes (lines 48-51): the (p - 1)-th and
\* the p-th visible character, or the sentinels.
Neighbours(site, p) ==
    LET found_p == ith_visible(site.seq, p - 1)
        found_n == ith_visible(site.seq, p)
    IN  << IF IsSome(found_p) THEN Unwrap(found_p) ELSE CB,
           IF IsSome(found_n) THEN Unwrap(found_n) ELSE CE >>

\* integrate_del that looks the element up by its glyph instead of its id.
integrate_del_by_glyph(site, c) ==
    LET hits == {i \in 1..Len(site.seq) : site.seq[i].c = c.c}
    IN  IF hits = {} THEN Outcome("Err", site, None)
        ELSE Outcome("Ok",
                     [site EXCEPT !.seq[CHOOSE i \in hits : \A j \in hits : i <= j].visible = FALSE],
                     Some(Operation("DEL", c, None, None)))

\* integrate_del that unlinks the element instead of flagging it.
integrate_del_unlinking(site, c) ==
    LET p == pos(site.seq, c)
    IN  IF p = None THEN Outcome("Err", site, None)
        ELSE Outcome("Ok",
                     [site EXCEPT !.seq = SubSeq(@, 1, Unwrap(p))
                                              \o SubSeq(@, Unwrap(p) + 2, Len(@))],
                     Some(Operation("DEL", c, None, None)))

\* Site::integrate_del: the first element with c's id becomes invisible.
integrate_del(site, c) ==
    LET p == pos(site.seq, c)
    IN  IF p = None THEN Outcome("Err", site, None)
        ELSE Outcome("Ok",
                     [site EXCEPT !.seq[Unwrap(p) + 1].visible = FALSE],
                     Some(Operation("DEL", c, None, None)))

\* generate_del that counts the clock up, as generate_ins does.
generate_del_countup(site, p) ==
    LET found == ith_visible(site.seq, p)
    IN  IF found = None THEN Outcome("Err", site, None)
        ELSE integrate_del([site EXCEPT !.clock = @ + 1], Unwrap(found))

\* Site::generate_del
generate_del(site, p) ==
    LET found == ith_visible(site.seq, p)
    IN  IF found = None THEN Outcome("Err", site, None)
        ELSE integrate_del(site, Unwrap(found))

\* execute that takes CB for an absent arg1 and CE for an absent arg2.
execute_defaulting(site, operation) ==
    IF operation.op = "INS"
    THEN integrate_ins(site, operation.c,
                       IF operation.arg1 = None THEN CB ELSE Unwrap(operation.arg1),
                       IF operation.arg2 = None THEN CE ELSE Unwrap(operation.arg2))
    ELSE IF operation.op = "DEL"
    THEN integrate_del(site, operation.c)
    ELSE Outcome("Err", site, None)

\* Site::execute
execute(site, operation) ==
    IF operation.op = "INS"
    THEN IF operation.arg1 = None \/ operation.arg2 = None
         THEN Outcome("Err", site, None)
         ELSE integrate_ins(site, operation.c,
                            Unwrap(operation.arg1), Unwrap(operation.arg2))
    ELSE IF operation.op = "DEL"
    THEN integrate_del(site, operation.c)
    ELSE Outcome("Err", site, None)

\* --------------------------------------------------------- the replicas

VARIABLES
    sites,     \* sites[s]: the Site of replica s (main.rs line 102)
    sent,      \* the operations handed to a sender thread, with their peer
    received,  \* received[s]: the operations the inbound thread of s has read
    done,      \* done[s]: the operations integrated at s (generated or executed)
    halted,    \* the replicas a panic or an endless recursion has stopped
    dups,      \* the number of operations executed a second time
    last,      \* the last engine call: its site, arguments and outcome
    cmp,       \* SpecOrder: two identifiers and the outcome of comparing them
    lock,      \* lock[s]: the holder of the Mutex around the Site of s
    ui,        \* ui[s]: where the main loop of s is, and the key it handles
    inbound,   \* inbound[s]: where the inbound thread of s is, and its stream
    backlog,   \* backlog[s]: the connections made to the listener of s, in order
    wired,     \* the operations whose sender thread has connected and written
    px,        \* px[s]: the cursor of s (main.rs line 74)
    foreign    \* the number of connections made by strangers

\* The threads of the replicas and what connects them.
threads == << lock, ui, inbound, backlog, wired, px, foreign >>

vars == << sites, sent, received, done, halted, dups, last, cmp, threads >>

\* The name of an operation: its origin, its tag and the id of its character.
Key(origin, operation) == << origin, operation.op, operation.c.id >>

\* An operation on its way from `from` to `to`; deps names the operations
\* integrated at `from` when it generated this one.
Message(from, to, operation, deps) ==
    [from |-> from, to |-> to, op |-> operation, deps |-> deps,
     key |-> Key(from, operation)]

Peers(s) == DOMAIN sites \ {s}

Call(s, name, p, ch, operation, out) ==
    [site |-> s, call |-> name, p |-> p, ch |-> ch, arg |-> operation,
     kind |-> out.kind, op |-> out.op]

VisibleLen(chars) == VisibleCount(chars, Len(chars))

Clocks == LET RECURSIVE Sum(_)
              Sum(S) == IF S = {} THEN 0
                        ELSE LET x == CHOOSE x \in S : TRUE
                             IN  sites[x].clock + Sum(S \ {x})
          IN  Sum(DOMAIN sites)
Deleted == {k \in UNION {done[s] : s \in DOMAIN sites} : k[2] = "DEL"}

\* Two identifiers that have not been compared yet.
Pair(a, b) == [a |-> a, b |-> b, out |-> None]

\* The input the main loop is handling (tui_textarea::Input, cut down to its
\* key and the character of a Key::Char).
Input(key, ch) == [key |-> key, ch |-> ch]

\* The threads of the replicas of `among` when main reaches its loop: the
\* Mutex is free, the inbound thread waits in listener.incoming(), nothing
\* has connected, and the cursor is at 0.
Spawned(among) ==
    /\ lock = [s \in among |-> "free"]
    /\ ui = [s \in among |-> [pc |-> "draw", input |-> Input("Null", "")]]
    /\ inbound = [s \in among |-> [pc |-> "accept", stream |-> None]]
    /\ backlog = [s \in among |-> << >>]
    /\ wired = {}
    /\ px = [s \in among |-> 0]
    /\ foreign = 0

\* The replicas of `among` right after new_site(id, 0) (main.rs line 102).
Start(among) ==
    /\ sites = [s \in among |-> new_site(s, 0)]
    /\ sent = {}
    /\ received = [s \in among |-> {}]
    /\ done = [s \in among |-> {}]
    /\ halted = {}
    /\ dups = 0
    /\ last = Call(0, "new_site", 0, "", None, Outcome("Ok", None, None))
    /\ cmp = Pair(CB_ID, CB_ID)
    /\ Spawned(among)

Init == Start(Sites)

\* What a finished engine call leaves behind at replica s: the Site, the
\* process (stopped by a panic or an endless recursion) and, for a local
\* generation that succeeded, the sender thread main.rs spawns per peer.
Finish(s, out, local) ==
    /\ sites' = [sites EXCEPT ![s] = out.site]
    /\ halted' = IF out.kind \in {"Panic", "Diverge"} THEN halted \cup {s} ELSE halted
    /\ sent' = IF local /\ out.kind = "Ok"
               THEN sent \cup {Message(s, t, Unwrap(out.op), done[s]) : t \in Peers(s)}
               ELSE sent
    /\ UNCHANGED cmp

\* main.rs lines 244-272: a key 'a'..'z' at cursor position p - 1.
GenerateIns(s, p, ch) ==
    /\ s \notin halted
    /\ LET out == generate_ins(sites[s], p, ch)
       IN  /\ Finish(s, out, TRUE)
           /\ done' = IF out.kind = "Ok"
                      THEN [done EXCEPT ![s] = @ \cup {Key(s, Unwrap(out.op))}]
                      ELSE done
           /\ last' = Call(s, "generate_ins", p, ch, None, out)
    /\ UNCHANGED << received, dups, threads >>

\* main.rs lines 172-201: Backspace at cursor position p.
GenerateDel(s, p) ==
    /\ s \notin halted
    /\ LET out == generate_del(sites[s], p)
       IN  /\ Finish(s, out, TRUE)
           /\ done' = IF out.kind = "Ok"
                      THEN [done EXCEPT ![s] = @ \cup {Key(s, Unwrap(out.op))}]
                      ELSE done
           /\ last' = Call(s, "generate_del", p, "", None, out)
    /\ UNCHANGED << received, dups, threads >>

\* main.rs lines 111-141: the inbound thread reads one operation and executes
\* it; an operation that fails is dropped.
Receive(s, m) ==
    /\ s \notin halted
    /\ m \in sent /\ m.to = s /\ m.key \notin received[s]
    /\ LET out == execute(sites[s], m.op)
       IN  /\ Finish(s, out, FALSE)
           /\ done' = IF out.kind = "Ok"
                      THEN [done EXCEPT ![s] = @ \cup {m.key}]
                      ELSE done
           /\ last' = Call(s, "execute", 0, "", Some(m.op), out)
    /\ received' = [received EXCEPT ![s] = @ \cup {m.key}]
    /\ UNCHANGED << dups, threads >>

\* An arrival in causal order: everything the origin had integrated when it
\* generated the operation is integrated here.
ReceiveCausal(s, m) ==
    /\ m.deps \subseteq done[s]
    /\ Receive(s, m)

\* execute called again with an operation this replica has executed before.
Reexecute(s, m) ==
    /\ s \notin halted
    /\ dups < MaxDup
    /\ m \in sent /\ m.to = s /\ m.key \in done[s]
    /\ LET out == execute(sites[s], m.op)
       IN  /\ Finish(s, out, FALSE)
           /\ last' = Call(s, "execute", 0, "", Some(m.op), out)
    /\ dups' = dups + 1
    /\ UNCHANGED << received, done, threads >>

\* The inputs of the model: a key typed at any cursor position of the text of
\* any replica, while fewer than ins insertions and fewer than ops operations
\* were generated.
TypeKey(ins, ops, glyphs) ==
    \E s \in DOMAIN sites : \E p \in 1..(VisibleLen(sites[s].seq) + 1) :
        \E ch \in glyphs :
            /\ Clocks < ins
            /\ Clocks + Cardinality(Deleted) < ops
            /\ GenerateIns(s, p, ch)

\* Backspace at any cursor position of any replica (slack = 1: also at
\* position 0 and one past the end of the text, where generate_del fails).
TypeBackspace(ops, slack) ==
    \E s \in DOMAIN sites : \E p \in (1 - slack)..(VisibleLen(sites[s].seq) + slack) :
        /\ Clocks + Cardinality(Deleted) < ops
        /\ GenerateDel(s, p)

\* The program: two replicas; the transport delivers every operation once,
\* in any order (one sender thread and one connection per operation).
Next ==
    \/ TypeKey(MaxOps, MaxOps, Glyphs)
    \/ TypeBackspace(MaxOps, 1)
    \/ \E s \in DOMAIN sites : \E m \in sent : Receive(s, m)

Spec == Init /\ [][Next]_vars

\* Longer runs of the two replicas in which every arrival is in causal order.
NextCausal ==
    \/ TypeKey(DeepIns, DeepIns + DeepDel, DeepGlyphs)
    \/ TypeBackspace(DeepIns + DeepDel, 0) /\ Cardinality(Deleted) < DeepDel
    \/ \E s \in DOMAIN sites : \E m \in sent : ReceiveCausal(s, m)

SpecCausal == Init /\ [][NextCausal]_vars

\* Three replicas that only insert; every arrival is in causal order.
NextThree ==
    \/ TypeKey(DeepIns, DeepIns, DeepGlyphs)
    \/ \E s \in DOMAIN sites : \E m \in sent : ReceiveCausal(s, m)

SpecThree == Start(Replicas) /\ [][NextThree]_vars

\* The two replicas with causal arrivals, where an operation may be executed
\* a second time.
NextDup ==
    \/ TypeKey(MaxOps, MaxOps, Glyphs)
    \/ TypeBackspace(MaxOps, 0)
    \/ \E s \in DOMAIN sites : \E m \in sent : ReceiveCausal(s, m)
    \/ \E s \in DOMAIN sites : \E m \in sent : Reexecute(s, m)

SpecDup == Init /\ [][NextDup]_vars

\* An arrival in the order of generation: every operation its origin
\* generated before this one has been read here.
ReceiveFifo(s, m) ==
    /\ \A e \in sent : (e.to = s /\ e.from = m.from /\ e.key \in m.deps)
                           => e.key \in received[s]
    /\ Receive(s, m)

\* The two replicas, where each reads the operations of its peer once and in
\* the order the peer generated them.
NextFifo ==
    \/ TypeKey(DeepIns, DeepIns + DeepDel, DeepGlyphs)
    \/ TypeBackspace(DeepIns + DeepDel, 0) /\ Cardinality(Deleted) < DeepDel
    \/ \E s \in DOMAIN sites : \E m \in sent : ReceiveFifo(s, m)

SpecFifo == Init /\ [][NextFifo]_vars

\* The two replicas started with the least and the greatest site id an i64
\* holds (main.rs line 62 parses any i64).
Extremes == {I64_MIN, I64_MAX}

SpecExtreme == Start(Extremes) /\ [][Next]_vars

\* The identifiers the comparisons are tried on: the site ids of the two
\* replicas and of the sentinels, with every clock value a run reaches.
Idents == {ID(ns, ng) : ns \in {I64_MIN, I64_MAX} \cup Sites, ng \in 0..MaxOps}

\* Every comparison of ID on the pair (a, b), in both directions.
Compare ==
    /\ cmp.out = None
    /\ cmp' = [cmp EXCEPT !.out =
                  Some([le |-> less_than_or_equal(cmp.a, cmp.b),
                        ge |-> less_than_or_equal(cmp.b, cmp.a),
                        lt |-> less_than(cmp.a, cmp.b),
                        gt |-> less_than(cmp.b, cmp.a),
                        eq |-> id_eq(cmp.a, cmp.b)])]
    /\ UNCHANGED << sites, sent, received, done, halted, dups, last, threads >>

InitOrder ==
    /\ \E a, b \in Idents : cmp = Pair(a, b)
    /\ sites = [s \in Sites |-> new_site(s, 0)]
    /\ sent = {}
    /\ received = [s \in Sites |-> {}]
    /\ done = [s \in Sites |-> {}]
    /\ halted = {}
    /\ dups = 0
    /\ last = Call(0, "new_site", 0, "", None, Outcome("Ok", None, None))
    /\ Spawned(Sites)

NextOrder == Compare

\* The comparisons of ID on every pair of identifiers of Idents.
SpecOrder == InitOrder /\ [][NextOrder]_vars

\* SpecUneven: the number of characters the first replica types, the number
\* each of the other two types, and the greatest cursor position typed at.
BusyIns == 3
IdleIns == 1
MaxCursor == 2

\* The number of characters replica s types in SpecUneven.
Share(s) == IF s = 1 THEN BusyIns ELSE IdleIns

\* A key typed at one of the first cursor positions of a replica that has
\* typed less than its share.
TypeUneven ==
    \E s \in DOMAIN sites : \E p \in 1..MaxCursor : \E ch \in DeepGlyphs :
        /\ p <= VisibleLen(sites[s].seq) + 1
        /\ sites[s].clock < Share(s)
        /\ GenerateIns(s, p, ch)

\* Three replicas that only insert, one of them more than the others; every
\* arrival is in causal order.
NextUneven ==
    \/ TypeUneven
    \/ \E s \in DOMAIN sites : \E m \in sent : ReceiveCausal(s, m)

SpecUneven == Start(Replicas) /\ [][NextUneven]_vars

\* ------------------------------------------------------------ the threads

\* SpecActors: the number of operations the two sites generate, and the
\* number of connections strangers make to the listener.
ActorOps == 1
MaxForeign == 1

\* SpecSenders: the number of operations the two sites generate.
SenderOps == 2

\* The engine's part of the state, which the steps around the lock, the
\* channel and the sockets leave alone.
engine == << sites, sent, received, done, halted, dups, last, cmp >>

\* serde_json::to_string(&operation): the fields of the Operation, in order.
serialize(operation) ==
    << operation.op, operation.c, operation.arg1, operation.arg2 >>

\* Operation::deserialize on what the stream holds: an Err unless all of the
\* Operation is there (an absent arg1 or arg2 is read as None).
deserialize(bytes) ==
    IF Len(bytes) # 4 THEN None
    ELSE Some(Operation(bytes[1], bytes[2], bytes[3], bytes[4]))

\* A connection made to a listener: who made it (0: a stranger), the name and
\* the causal past of the operation it carries, and what is written to it.
Conn(from, key, deps, bytes) ==
    [from |-> from, key |-> key, deps |-> deps, bytes |-> bytes]

\* Characters of a site that is no replica; Absent is in no sequence.
Stranger == Character(ID(0, 1), "x", TRUE, Some(CB_ID), Some(CE_ID))
Absent == Character(ID(0, 2), "x", TRUE, Some(CB_ID), Some(CE_ID))

\* What a stranger writes: nothing that decodes, an unknown tag, an INS that
\* lacks arg1 or arg2, an INS whose cp or cn is in no sequence, and a DEL of a
\* character that is in no sequence.
BadPayloads ==
    { << >>,
      serialize(Operation("NOP", Stranger, None, None)),
      serialize(Operation("INS", Stranger, None, Some(CE))),
      serialize(Operation("INS", Stranger, Some(CB), None)),
      serialize(Operation("INS", Stranger, Some(Absent), Some(CE))),
      serialize(Operation("INS", Stranger, Some(CB), Some(Absent))),
      serialize(Operation("DEL", Absent, None, None)) }

\* The local edits under way: keys received that the main loop has not
\* handled to the end.
Pending ==
    Cardinality({s \in DOMAIN sites :
                    /\ ui[s].pc \in {"lock", "call"}
                    /\ ui[s].input.key \in {"Char", "Backspace"}})

\* main.rs lines 188-195 and 259-266: the sender thread of one operation
\* connects to the peer (while the peer runs), serializes and writes.
SenderConnect(m) ==
    /\ m \in sent /\ m \notin wired
    /\ m.to \notin halted
    /\ wired' = wired \cup {m}
    /\ backlog' = [backlog EXCEPT ![m.to] =
                      Append(@, Conn(m.from, m.key, m.deps, serialize(m.op)))]
    /\ UNCHANGED << engine, lock, ui, inbound, px, foreign >>

\* Any process may connect to the listener (main.rs line 72) and write.
ForeignConnect(s, bytes) ==
    /\ foreign < MaxForeign
    /\ s \notin halted
    /\ foreign' = foreign + 1
    /\ backlog' = [backlog EXCEPT ![s] =
                      Append(@, Conn(0, << 0, "raw", foreign >>, {}, bytes))]
    /\ UNCHANGED << engine, lock, ui, inbound, wired, px >>

\* main.rs lines 111-117: the inbound thread takes the next connection and
\* reads one Operation from it; deserialize(..).unwrap() panics on an Err,
\* which ends the thread (the lock is not held).
InboundAccept(s) ==
    /\ s \notin halted
    /\ inbound[s].pc = "accept"
    /\ backlog[s] # << >>
    /\ backlog' = [backlog EXCEPT ![s] = Tail(@)]
    /\ inbound' = [inbound EXCEPT ![s] =
                      [pc |-> IF deserialize(Head(backlog[s]).bytes) = None
                              THEN "dead" ELSE "lock",
                       stream |-> Some(Head(backlog[s]))]]
    /\ UNCHANGED << engine, lock, ui, wired, px, foreign >>

\* InboundLock that does not wait for the Mutex.
InboundLockBarging(s) ==
    /\ s \notin halted
    /\ inbound[s].pc = "lock"
    /\ lock' = [lock EXCEPT ![s] = "inbound"]
    /\ inbound' = [inbound EXCEPT ![s].pc = "execute"]
    /\ UNCHANGED << engine, ui, backlog, wired, px, foreign >>

\* main.rs line 119: s0.lock()
InboundLock(s) ==
    /\ s \notin halted
    /\ inbound[s].pc = "lock"
    /\ lock[s] = "free"
    /\ lock' = [lock EXCEPT ![s] = "inbound"]
    /\ inbound' = [inbound EXCEPT ![s].pc = "execute"]
    /\ UNCHANGED << engine, ui, backlog, wired, px, foreign >>

\* main.rs lines 120-141: execute under the lock, then drop(s).  After an Err
\* the thread goes on to the next connection; after an Ok it sends the dummy
\* input, with the stream still open (de lives to the end of the loop body).
\* A panic inside execute ends the thread with the lock held, which poisons
\* the Mutex: the next lock().unwrap() of the main loop panics too.
InboundExecute(s) ==
    /\ s \notin halted
    /\ inbound[s].pc = "execute"
    /\ LET conn == Unwrap(inbound[s].stream)
           operation == Unwrap(deserialize(conn.bytes))
           out == execute(sites[s], operation)
       IN  /\ Finish(s, out, FALSE)
           /\ done' = IF out.kind = "Ok"
                      THEN [done EXCEPT ![s] = @ \cup {conn.key}]
                      ELSE done
           /\ received' = [received EXCEPT ![s] = @ \cup {conn.key}]
           /\ last' = Call(s, "execute", 0, "", Some(operation), out)
           /\ lock' = [lock EXCEPT ![s] =
                          IF out.kind = "Panic" THEN "poisoned" ELSE "free"]
           /\ inbound' = [inbound EXCEPT ![s] =
                             [pc |-> CASE out.kind = "Ok" -> "notify"
                                       [] out.kind = "Err" -> "accept"
                                       [] OTHER -> "dead",
                              stream |-> IF out.kind = "Ok" THEN inbound[s].stream
                                         ELSE None]]
    /\ UNCHANGED << dups, ui, backlog, wired, px, foreign >>

\* main.rs line 139 and lines 159-171: sender2.send(dummy_input) on the
\* bounded(0) channel returns when the main loop receives it in select!; the
\* Key::Null arm does nothing and the loop draws again.
Repaint(s) ==
    /\ s \notin halted
    /\ inbound[s].pc = "notify"
    /\ ui[s].pc = "select"
    /\ inbound' = [inbound EXCEPT ![s] = [pc |-> "accept", stream |-> None]]
    /\ ui' = [ui EXCEPT ![s] = [pc |-> "draw", input |-> Input("Null", "")]]
    /\ UNCHANGED << engine, lock, backlog, wired, px, foreign >>

\* main.rs line 151: s1.lock() inside term.draw
UiDrawLock(s) ==
    /\ s \notin halted
    /\ ui[s].pc = "draw"
    /\ lock[s] = "free"
    /\ lock' = [lock EXCEPT ![s] = "ui"]
    /\ ui' = [ui EXCEPT ![s].pc = "drawing"]
    /\ UNCHANGED << engine, inbound, backlog, wired, px, foreign >>

\* main.rs lines 152-155: the text is read and the lock dropped.
UiDraw(s) ==
    /\ s \notin halted
    /\ ui[s].pc = "drawing"
    /\ lock' = [lock EXCEPT ![s] = "free"]
    /\ ui' = [ui EXCEPT ![s].pc = "select"]
    /\ UNCHANGED << engine, inbound, backlog, wired, px, foreign >>

\* main.rs lines 159-165: select! receives a key of the key thread.  Left
\* (lines 207-211, and Ctrl-b) moves the cursor without the lock; a letter
\* moves it right before the lock is taken (line 245).  Letters and Backspace
\* are pressed while fewer than ops operations were generated.
UiKey(s, input, ops) ==
    /\ s \notin halted
    /\ ui[s].pc = "select"
    /\ input.key \in {"Char", "Backspace"} =>
           Clocks + Cardinality(Deleted) + Pending < ops
    /\ ui' = [ui EXCEPT ![s] =
                 [pc |-> IF input.key = "Left" THEN "draw" ELSE "lock",
                  input |-> input]]
    /\ px' = [px EXCEPT ![s] =
                 CASE input.key = "Left" -> IF @ > 0 THEN @ - 1 ELSE @
                   [] input.key = "Char" -> @ + 1
                   [] OTHER -> @]
    /\ UNCHANGED << engine, lock, inbound, backlog, wired, foreign >>

\* main.rs lines 176, 236 and 248: s1.lock() in the arm of the key
UiLock(s) ==
    /\ s \notin halted
    /\ ui[s].pc = "lock"
    /\ lock[s] = "free"
    /\ lock' = [lock EXCEPT ![s] = "ui"]
    /\ ui' = [ui EXCEPT ![s].pc = "call"]
    /\ UNCHANGED << engine, inbound, backlog, wired, px, foreign >>

\* main.rs lines 249-268: generate_ins(px, ch) under the lock, drop(s), and a
\* sender thread for the operation.
UiInsert(s) ==
    /\ s \notin halted
    /\ ui[s].pc = "call" /\ ui[s].input.key = "Char"
    /\ LET out == generate_ins(sites[s], px[s], ui[s].input.ch)
       IN  /\ Finish(s, out, TRUE)
           /\ done' = IF out.kind = "Ok"
                      THEN [done EXCEPT ![s] = @ \cup {Key(s, Unwrap(out.op))}]
                      ELSE done
           /\ last' = Call(s, "generate_ins", px[s], ui[s].input.ch, None, out)
    /\ lock' = [lock EXCEPT ![s] = "free"]
    /\ ui' = [ui EXCEPT ![s].pc = "draw"]
    /\ UNCHANGED << received, dups, inbound, backlog, wired, px, foreign >>

\* main.rs lines 177-200: generate_del(px) under the lock, drop(s), a sender
\* thread for the operation, and the cursor one to the left.
UiBackspace(s) ==
    /\ s \notin halted
    /\ ui[s].pc = "call" /\ ui[s].input.key = "Backspace"
    /\ LET out == generate_del(sites[s], px[s])
       IN  /\ Finish(s, out, TRUE)
           /\ done' = IF out.kind = "Ok"
                      THEN [done EXCEPT ![s] = @ \cup {Key(s, Unwrap(out.op))}]
                      ELSE done
           /\ last' = Call(s, "generate_del", px[s], "", None, out)
    /\ lock' = [lock EXCEPT ![s] = "free"]
    /\ ui' = [ui EXCEPT ![s].pc = "draw"]
    /\ px' = [px EXCEPT ![s] = IF @ > 0 THEN @ - 1 ELSE @]
    /\ UNCHANGED << received, dups, inbound, backlog, wired, foreign >>

\* main.rs lines 236-242 (and Ctrl-f, lines 226-231): the cursor one to the
\* right, but not past the text, which is read under the lock.
UiRight(s) ==
    /\ s \notin halted
    /\ ui[s].pc = "call" /\ ui[s].input.key = "Right"
    /\ px' = [px EXCEPT ![s] =
                 IF @ + 1 > VisibleLen(sites[s].seq)
                 THEN VisibleLen(sites[s].seq) ELSE @ + 1]
    /\ lock' = [lock EXCEPT ![s] = "free"]
    /\ ui' = [ui EXCEPT ![s].pc = "draw"]
    /\ UNCHANGED << engine, inbound, backlog, wired, foreign >>

\* The keys the model presses: a letter, Backspace, Left and Right.
Keys ==
    {Input("Char", ch) : ch \in DeepGlyphs}
        \cup {Input(k, "") : k \in {"Backspace", "Left", "Right"}}

\* The replica whose threads are followed step by step, and its peer, which
\* takes the steps of Spec: a key handled at once at any cursor position, an
\* operation read and executed at once.
Here == 1
There == 2

\* A key or Backspace at the peer while fewer than ops operations were
\* generated.
PeerKey(ops) ==
    /\ Clocks + Cardinality(Deleted) + Pending < ops
    /\ \/ \E p \in 1..(VisibleLen(sites[There].seq) + 1) : \E ch \in DeepGlyphs :
              GenerateIns(There, p, ch)
       \/ \E p \in 1..VisibleLen(sites[There].seq) : GenerateDel(There, p)

\* The main loop and the inbound thread of one replica around its Mutex, the
\* sender threads of the operations on their way to it, and its peer.
Replica(ops) ==
    \/ UiDrawLock(Here)
    \/ UiDraw(Here)
    \/ \E input \in Keys : UiKey(Here, input, ops)
    \/ UiLock(Here)
    \/ UiInsert(Here)
    \/ UiBackspace(Here)
    \/ UiRight(Here)
    \/ \E m \in sent : m.to = Here /\ SenderConnect(m)
    \/ InboundAccept(Here)
    \/ InboundLock(Here)
    \/ InboundExecute(Here)
    \/ Repaint(Here)
    \/ PeerKey(ops)
    \/ \E m \in sent : Receive(There, m)

\* The program with its threads, and strangers that connect to the listener.
NextActors ==
    \/ Replica(ActorOps)
    \/ \E bytes \in BadPayloads : ForeignConnect(Here, bytes)

SpecActors == Init /\ [][NextActors]_vars

\* The program with its threads, where only the peer connects.
NextSenders == Replica(SenderOps)

SpecSenders == Init /\ [][NextSenders]_vars

\* SpecRepaint: the number of operations the two sites generate, how many of
\* them the peer generates, and how many keys that generate an operation are
\* pressed at the replica.
RepaintOps == 5
PeerOps == 2
HereOps == 3

\* The operations the peer has generated.
PeerGenerated == {k \in done[There] : k[1] = There}

\* The letters and Backspaces pressed at the replica that reached, or are on
\* their way to, generate_ins or a successful generate_del.
HereTyped ==
    sites[Here].clock + Cardinality({k \in done[Here] : k[1] = Here /\ k[2] = "DEL"})
        + Pending

\* A letter typed at the peer, at any cursor position.
PeerType ==
    /\ Clocks + Cardinality(Deleted) + Pending < RepaintOps
    /\ \E p \in 1..(VisibleLen(sites[There].seq) + 1) : \E ch \in DeepGlyphs :
           GenerateIns(There, p, ch)

\* The program with its threads, where only the peer connects, the keys
\* pressed at the replica are a letter and Backspace (at most HereOps that
\* generate an operation), and the peer types at most PeerOps letters.
NextRepaint ==
    /\ \/ UiDrawLock(Here)
       \/ UiDraw(Here)
       \/ \E input \in {Input("Char", ch) : ch \in DeepGlyphs} \cup {Input("Backspace", "")} :
              UiKey(Here, input, RepaintOps)
       \/ UiLock(Here)
       \/ UiInsert(Here)
       \/ UiBackspace(Here)
       \/ \E m \in sent : m.to = Here /\ SenderConnect(m)
       \/ InboundAccept(Here)
       \/ InboundLock(Here)
       \/ InboundExecute(Here)
       \/ Repaint(Here)
       \/ PeerType
       \/ \E m \in sent : Receive(There, m)
    /\ Cardinality(PeerGenerated') <= PeerOps
    /\ HereTyped' <= HereOps

\* The main loop comes back from the call it makes under the lock (lines 177
\* and 249), whatever the call does to the Site.
UiReturns ==
    /\ Here \notin halted
    /\ ui[Here].pc = "call"
    /\ ui' = [ui EXCEPT ![Here].pc = "draw"]

\* The inbound thread comes back from execute (line 120), whatever the call
\* does to the Site.
InboundReturns ==
    /\ Here \notin halted
    /\ inbound[Here].pc = "execute"
    /\ \E pc \in {"notify", "accept", "dead"} :
           \E stream \in {None, inbound[Here].stream} :
               inbound' = [inbound EXCEPT ![Here] = [pc |-> pc, stream |-> stream]]

\* The main loop and the inbound thread are running threads: each of their
\* steps that can be taken is taken.  A sender blocked on the bounded(0)
\* channel is served by the next recv but one at the latest (the key thread
\* is the only other sender), so the dummy input is received if the loop
\* keeps coming back to select!.
ThreadsRun ==
    /\ WF_vars(UiDrawLock(Here))
    /\ WF_vars(UiDraw(Here))
    /\ WF_vars(UiLock(Here))
    /\ WF_ui(UiReturns)
    /\ WF_vars(InboundLock(Here))
    /\ WF_inbound(InboundReturns)
    /\ SF_vars(Repaint(Here))

SpecRepaint == Init /\ [][NextRepaint]_vars /\ ThreadsRun

\* SpecErrors: the number of successful generate_ins and generate_del calls.
ErrOps == 2

\* main.rs lines 111-141 on what a stranger wrote, when it decodes: the
\* operation is executed, and one that fails is dropped.
ReceiveStranger(s, bytes) ==
    /\ s \notin halted
    /\ deserialize(bytes) # None
    /\ LET operation == Unwrap(deserialize(bytes))
           out == execute(sites[s], operation)
       IN  /\ Finish(s, out, FALSE)
           /\ last' = Call(s, "execute", 0, "", Some(operation), out)
    /\ UNCHANGED << received, done, dups, threads >>

\* The two replicas of Spec, which also read what strangers write.
NextErrors ==
    \/ TypeKey(ErrOps, ErrOps, Glyphs)
    \/ TypeBackspace(ErrOps, 1)
    \/ \E s \in DOMAIN sites : \E m \in sent : Receive(s, m)
    \/ \E s \in DOMAIN sites : \E bytes \in BadPayloads : ReceiveStranger(s, bytes)

SpecErrors == Init /\ [][NextErrors]_vars

\* ------------------------------------------------- what the claims speak of

\* The visible characters of a sequence, in order.
Visible(chars) == SelectSeq(chars, LAMBDA x : x.visible)

VisibleIds(chars) == [i \in 1..Len(Visible(chars)) |-> Visible(chars)[i].id]

VisibleGlyphs(chars) == [i \in 1..Len(Visible(chars)) |-> Visible(chars)[i].c]

\* The character list of a replica: ids in physical order with their flags.
CharList(chars) == [i \in 1..Len(chars) |-> << chars[i].id, chars[i].visible >>]

Ids(chars) == {chars[i].id : i \in 1..Len(chars)}

RECURSIVE Join(_)
Join(glyphs) == IF glyphs = << >> THEN "" ELSE Head(glyphs) \o Join(Tail(glyphs))

InsertAt(xs, p, x) == SubSeq(xs, 1, p - 1) \o << x >> \o SubSeq(xs, p, Len(xs))

RemoveAt(xs, p) == SubSeq(xs, 1, p - 1) \o SubSeq(xs, p + 1, Len(xs))

\* C1 (convergence): two replicas that have integrated the same set of
\* operations, each arriving in causal order, hold the same character list
\* (ids in physical order, tombstones and visible flags included) and so the
\* same text.
Convergence ==
    \A r1, r2 \in DOMAIN sites :
        done[r1] = done[r2] =>
            /\ CharList(sites[r1].seq) = CharList(sites[r2].seq)
            /\ text(sites[r1].seq) = text(sites[r2].seq)

\* C2 (termination of integrate_ins): no call of integrate_ins, from
\* generate_ins or from execute, recurses without end: every recursive call is
\* on a pair with a strictly smaller between-slice.
Termination ==
    last.call \in {"generate_ins", "execute"} => last.kind # "Diverge"

\* C3 (idempotence): once execute(op) has succeeded at a replica, executing
\* the same op again leaves the character list as it is.
Idempotence ==
    (last.call = "execute" /\ last.kind = "Ok") =>
        LET again == execute(sites[last.site], Unwrap(last.arg))
        IN  CharList(again.site.seq) = CharList(sites[last.site].seq)

\* C4 (generate_ins positional contract): generate_ins(p, ch) with
\* 1 <= p <= n + 1, n the number of visible characters, succeeds, and the new
\* character is the p-th visible one: the visible characters and the text
\* are the previous ones with the new character and ch inserted at index p.
PositionalIns ==
    [][LET s == last'.site
           p == last'.p
       IN  (last'.call = "generate_ins" /\ p >= 1
                /\ p <= VisibleLen(sites[s].seq) + 1) =>
               /\ last'.kind = "Ok"
               /\ VisibleIds(sites'[s].seq)
                      = InsertAt(VisibleIds(sites[s].seq), p, Unwrap(last'.op).c.id)
               /\ text(sites'[s].seq)
                      = Join(InsertAt(VisibleGlyphs(sites[s].seq), p, last'.ch))
      ]_vars

\* C5 (generate_del positional contract): generate_del(p) with 1 <= p <= n
\* succeeds, makes exactly the p-th visible character invisible and changes
\* nothing else, so the text is the previous text without its p-th character,
\* and returns a DEL operation naming that character.
PositionalDel ==
    [][LET s == last'.site
           p == last'.p
           before == sites[s].seq
           target == Visible(before)[p]
       IN  (last'.call = "generate_del" /\ p >= 1 /\ p <= VisibleLen(before)) =>
               /\ last'.kind = "Ok"
               /\ CharList(sites'[s].seq)
                      = [i \in 1..Len(before) |->
                            << before[i].id,
                               before[i].visible /\ before[i].id # target.id >>]
               /\ text(sites'[s].seq) = Join(RemoveAt(VisibleGlyphs(before), p))
               /\ Unwrap(last'.op).op = "DEL"
               /\ Unwrap(last'.op).c.id = target.id
      ]_vars

\* A successful generate_del(2): the second of two visible characters went.
PositionalDelWitness ==
    /\ last.call = "generate_del" /\ last.kind = "Ok" /\ last.p = 2
    /\ Len(Visible(sites[last.site].seq)) = 1
    /\ Len(sites[last.site].seq) = 4

\* C6 (the operation record carries the origin context): the INS operation
\* generate_ins returns has arg1 = cp and arg2 = cn, the neighbours chosen at
\* generation (arg1.id = c.prev_id and arg2.id = c.next_id); a DEL operation
\* has neither argument.
OperationContext ==
    /\ (last.call = "generate_ins" /\ last.kind = "Ok") =>
           LET o == Unwrap(last.op)
           IN  /\ o.op = "INS" /\ o.arg1 # None /\ o.arg2 # None
               /\ Unwrap(o.arg1).id = Unwrap(o.c.prev_id)
               /\ Unwrap(o.arg2).id = Unwrap(o.c.next_id)
    /\ (last.call = "generate_del" /\ last.kind = "Ok") =>
           LET o == Unwrap(last.op)
           IN  o.op = "DEL" /\ o.arg1 = None /\ o.arg2 = None

\* C7 (I1): at every replica the first element of seq is CB and the last is
\* CE, both invisible, after every generate_ins, generate_del and execute,
\* failed ones included.
Sentinels ==
    \A s \in DOMAIN sites :
        LET chars == sites[s].seq
        IN  /\ Len(chars) >= 2
            /\ chars[1].id = CB_ID /\ ~chars[1].visible
            /\ chars[Len(chars)].id = CE_ID /\ ~chars[Len(chars)].visible

\* An execute that failed at a replica holding a character of its own.
SentinelsWitness ==
    /\ last.call = "execute" /\ last.kind = "Err"
    /\ Len(sites[last.site].seq) > 2

VisibleMonotone ==
    [][\A s \in DOMAIN sites : \A id \in Ids(sites[s].seq) :
           (id \notin Ids(Visible(sites[s].seq)))
               => (id \notin Ids(Visible(sites'[s].seq)))
      ]_vars

\* C10 (I3) as stated: after a successful generate_ins or generate_del the
\* clock of the site is strictly greater than before the call.
ClockAdvances ==
    [][(last'.call \in {"generate_ins", "generate_del"} /\ last'.kind = "Ok") =>
           sites'[last'.site].clock > sites[last'.site].clock
      ]_vars

\* C10 amended: generate_ins leaves the clock exactly one greater than before
\* the call; generate_del, successful or failed, leaves it unchanged.
ClockOnGeneration ==
    [][/\ last'.call = "generate_ins" =>
              sites'[last'.site].clock = sites[last'.site].clock + 1
       /\ last'.call = "generate_del" =>
              sites'[last'.site].clock = sites[last'.site].clock
      ]_vars

\* A successful generate_del at a site that has generated two insertions.
ClockOnGenerationWitness ==
    /\ last.call = "generate_del" /\ last.kind = "Ok"
    /\ sites[last.site].clock = 2

\* C11 (identifier order): less_than_or_equal(a, b) holds iff a.ns < b.ns or
\* (a.ns = b.ns and a.ng <= b.ng), less_than is the strict lexicographic
\* order, less_than_or_equal(a, b) iff (less_than(a, b) or a = b), one of
\* less_than_or_equal(a, b) and less_than_or_equal(b, a) holds, and both
\* together imply a = b.
IdentifierOrder ==
    cmp.out # None =>
        LET a == cmp.a
            b == cmp.b
            r == Unwrap(cmp.out)
        IN  /\ r.le <=> (a.ns < b.ns \/ (a.ns = b.ns /\ a.ng <= b.ng))
            /\ r.lt <=> (a.ns < b.ns \/ (a.ns = b.ns /\ a.ng < b.ng))
            /\ r.le <=> (r.lt \/ r.eq)
            /\ r.eq <=> (a = b)
            /\ r.le \/ r.ge
            /\ (r.le /\ r.ge) => a = b

\* C12 (sentinel ordering): every identifier g that generate_ins creates, at
\* a site with any i64 as its id and a clock that started at 0, lies strictly
\* between the sentinels: less_than(CB.id, g) and less_than(g, CE.id), so g
\* is neither CB.id nor CE.id.
SentinelOrdering ==
    (last.call = "generate_ins" /\ last.kind = "Ok") =>
        LET g == Unwrap(last.op).c.id
        IN  /\ less_than(CB_ID, g) /\ less_than(g, CE_ID)
            /\ ~id_eq(g, CB_ID) /\ ~id_eq(g, CE_ID)

\* C15 (pairwise FIFO sufficiency): when each of the two sites reads the
\* operations of its peer once and in the order of their generation, every
\* execute of an inbound operation succeeds: no INS misses its cp or cn and
\* no DEL misses its target.
FifoSufficient ==
    last.call = "execute" => last.kind = "Ok"

\* The failing executes C13 lists: an unknown tag, an INS that lacks arg1 or
\* arg2, an INS whose cp or cn is not in seq, a DEL whose id is not in seq.
Failing(site, operation) ==
    \/ operation.op \notin {"INS", "DEL"}
    \/ /\ operation.op = "INS"
       /\ \/ operation.arg1 = None
          \/ operation.arg2 = None
          \/ pos(site.seq, Unwrap(operation.arg1)) = None
          \/ pos(site.seq, Unwrap(operation.arg2)) = None
    \/ /\ operation.op = "DEL"
       /\ pos(site.seq, operation.c) = None

\* C13 (errors leave the replica unchanged): execute with an unknown tag, of
\* an INS that lacks arg1 or arg2, of an INS whose cp or cn is not in seq, of
\* a DEL whose id is not in seq, and generate_del(p) with p = 0 or p greater
\* than the number of visible characters all return an error, and a call that
\* returns an error leaves seq (characters, order, flags) as it was.
ErrorsLeaveUnchanged ==
    [][LET s == last'.site
       IN  /\ (last'.call = "execute" /\ Failing(sites[s], Unwrap(last'.arg)))
                  => last'.kind = "Err"
           /\ (last'.call = "generate_del"
                   /\ (last'.p = 0 \/ last'.p > VisibleLen(sites[s].seq)))
                  => last'.kind = "Err"
           /\ (last'.call \in {"execute", "generate_del"} /\ last'.kind = "Err")
                  => sites'[s].seq = sites[s].seq
      ]_vars

\* An INS without arg1 failed at a replica that holds a visible character.
ErrorsLeaveUnchangedWitness ==
    /\ last.call = "execute" /\ last.kind = "Err"
    /\ Unwrap(last.arg).op = "INS" /\ Unwrap(last.arg).arg1 = None
    /\ VisibleLen(sites[last.site].seq) > 0

\* C14 (a bad inbound operation never stops the replica): whatever was read
\* from a connection (bytes that do not decode, an unknown tag, missing
\* arguments, a missing context, a missing target), the inbound thread goes
\* on to the next connection and the Mutex stays usable for the main loop.
InboundSurvives ==
    \A s \in DOMAIN sites :
        /\ inbound[s].pc # "dead"
        /\ lock[s] # "poisoned"

\* C19 (transport FIFO): when the replica has read an operation of its peer,
\* it has read every operation the peer generated before that one.
TransportFifo ==
    \A m \in sent :
        (m.to = Here /\ m.key \in received[Here]) =>
            \A e \in sent :
                (e.to = Here /\ e.from = m.from /\ e.key \in m.deps)
                    => e.key \in received[Here]

\* C20 (lock discipline): the Mutex is held by the main loop exactly while it
\* draws or handles a key under the lock, and by the inbound thread exactly
\* while it executes, so never by both and never by a thread that waits in
\* select!, in send, in accept or in read; and the Site changes only in a step
\* of the thread that holds the Mutex.
LockDiscipline ==
    [][/\ lock'[Here] = "ui" <=> ui'[Here].pc \in {"drawing", "call"}
       /\ lock'[Here] = "inbound" <=> inbound'[Here].pc = "execute"
       /\ ~(ui'[Here].pc \in {"drawing", "call"} /\ inbound'[Here].pc = "execute")
       /\ sites'[Here] # sites[Here] =>
              \/ lock[Here] = "ui" /\ ui[Here].pc = "call"
              \/ lock[Here] = "inbound" /\ inbound[Here].pc = "execute"
      ]_vars

\* The main loop waits for the Mutex while the inbound thread executes.
LockDisciplineWitness ==
    /\ ui[Here].pc = "lock"
    /\ inbound[Here].pc = "execute"
    /\ lock[Here] = "inbound"

\* The identifiers site s has generated: those of its INS operations handed
\* to a sender thread and those of its own characters in its seq.
Generated(s) ==
    {m.op.c.id : m \in {e \in sent : e.from = s /\ e.op.op = "INS"}}
        \cup {id \in Ids(sites[s].seq) : id.ns = s}

\* C17 (clock frame): the clock of a site changes only in a generate_ins of
\* that site, by the one increment of generate_ins; execute, and the
\* integrate_ins and integrate_del inside it or inside a local generation,
\* successful or failed, leave it as it is; and the ng of a character a site
\* generates is greater than the ng of every character it generated before.
ClockFrame ==
    [][LET s == last'.site
       IN  /\ \A t \in DOMAIN sites :
                  sites'[t].clock # sites[t].clock =>
                      (last'.call = "generate_ins" /\ s = t)
           /\ last'.call \in {"execute", "generate_del"} =>
                  sites'[s].clock = sites[s].clock
           /\ last'.call = "generate_ins" =>
                  sites'[s].clock = sites[s].clock + 1
           /\ (last'.call = "generate_ins" /\ last'.kind = "Ok") =>
                  LET g == Unwrap(last'.op).c.id
                  IN  /\ g.ns = s /\ g.ng = sites'[s].clock
                      /\ \A id \in Generated(s) : id.ng < g.ng
      ]_vars

\* A site that has generated two characters executed an INS of its peer.
ClockFrameWitness ==
    /\ last.call = "execute" /\ last.kind = "Ok"
    /\ Unwrap(last.arg).op = "INS"
    /\ sites[last.site].clock = 2
    /\ Cardinality(Generated(last.site)) = 2

\* C18 (sibling order): of two characters of a replica's seq that have the
\* same prev_id and the same next_id, the one with the smaller identifier
\* (strict lexicographic order) comes first.
SiblingOrder ==
    \A s \in DOMAIN sites :
        LET chars == sites[s].seq
        IN  \A i, j \in 1..Len(chars) :
                (/\ i < j
                 /\ chars[i].prev_id # None
                 /\ chars[i].prev_id = chars[j].prev_id
                 /\ chars[i].next_id = chars[j].next_id
                 /\ chars[i].id # chars[j].id)
                    => less_than(chars[i].id, chars[j].id)

\* The operations on their way to replica s that it has not read yet.
Inbound(s) == {m.op : m \in {e \in sent : e.to = s /\ e.key \notin received[s]}}

\* execute(op1) and then, if it succeeded, execute(op2).
Then(site, op1, op2) ==
    LET first == execute(site, op1)
    IN  IF first.kind = "Ok" THEN execute(first.site, op2) ELSE first

\* The (cp, cn) intervals of two INS operations do not overlap in seq: one
\* ends where or before the other begins.
Disjoint(chars, op1, op2) ==
    LET cp1 == pos(chars, Unwrap(op1.arg1))
        cn1 == pos(chars, Unwrap(op1.arg2))
        cp2 == pos(chars, Unwrap(op2.arg1))
        cn2 == pos(chars, Unwrap(op2.arg2))
    IN  \/ Unwrap(cn1) <= Unwrap(cp2)
        \/ Unwrap(cn2) <= Unwrap(cp1)

Atoms(chars) == [i \in 1..Len(chars) |-> [chars[i] EXCEPT !.visible = TRUE]]

\* C22 (append-only sequence): a successful generate_ins or execute of an INS
\* adds exactly one character to seq, the one of the operation; every other
\* call (generate_del, execute of a DEL, a failed call) adds none; and no call
\* removes a character or changes the relative physical order of two
\* characters that were in seq.
AppendOnly ==
    [][LET s == last'.site
           before == Atoms(sites[s].seq)
           after == Atoms(sites'[s].seq)
           ins == \/ last'.call = "generate_ins"
                  \/ last'.call = "execute" /\ Unwrap(last'.arg).op = "INS"
       IN  /\ (ins /\ last'.kind = "Ok") =>
                  /\ Len(after) = Len(before) + 1
                  /\ \E k \in 1..Len(after) :
                         /\ after[k].id = Unwrap(last'.op).c.id
                         /\ RemoveAt(after, k) = before
           /\ ~(ins /\ last'.kind = "Ok") => after = before
           /\ \A t \in DOMAIN sites \ {s} : sites'[t].seq = sites[t].seq
      ]_vars

\* A replica that holds a tombstone executed an INS of its peer, which went
\* before a character it held.
AppendOnlyWitness ==
    /\ last.call = "execute" /\ last.kind = "Ok"
    /\ Unwrap(last.arg).op = "INS"
    /\ \E i \in 1..Len(sites[last.site].seq) :
           sites[last.site].seq[i].id # CB_ID /\ sites[last.site].seq[i].id # CE_ID
               /\ ~sites[last.site].seq[i].visible
    /\ LET k == Unwrap(pos(sites[last.site].seq, Unwrap(last.arg).c))
       IN  k < Len(sites[last.site].seq) - 2

Causal(s, operation) ==
    \E m \in sent : m.to = s /\ m.op = operation /\ m.deps \subseteq done[s]

\* C23 (ordered context in every integrate_ins call): in every call of
\* integrate_ins(c, cp, cn), made by generate_ins, by execute of an operation
\* of a site that arrives in causal order, or by integrate_ins itself, cp is
\* in seq at a strictly smaller index than cn, so that subseq(cp, cn) does not
\* underflow and the call does not panic.
OrderedContext ==
    [][LET s == last'.site
       IN  /\ last'.call = "generate_ins" =>
                  LET nb == Neighbours(sites[s], last'.p)
                      c == Character(ID(sites[s].id, sites[s].clock + 1), last'.ch,
                                     TRUE, Some(nb[1].id), Some(nb[2].id))
                  IN  /\ OrderedCalls(sites[s], c, nb[1], nb[2], {})
                      /\ last'.kind # "Panic"
           /\ (/\ last'.call = "execute"
               /\ Unwrap(last'.arg).op = "INS"
               /\ Unwrap(last'.arg).arg1 # None /\ Unwrap(last'.arg).arg2 # None
               /\ Causal(s, Unwrap(last'.arg))) =>
                  LET o == Unwrap(last'.arg)
                  IN  /\ OrderedCalls(sites[s], o.c, Unwrap(o.arg1), Unwrap(o.arg2), {})
                      /\ last'.kind # "Panic"
      ]_vars

\* The names of the operations of the peer in SpecRepaint.
PeerKeys == {<< There, "INS", ID(There, ng) >> : ng \in 1..PeerOps}

\* The inbound thread is blocked in sender2.send(dummy_input) after it has
\* integrated the operation named k.
Signalling(k) ==
    /\ inbound[Here].pc = "notify"
    /\ Unwrap(inbound[Here].stream).key = k

\* The operation named k shows in seq: the character of an INS is there, the
\* character of a DEL is not visible.
Reflects(k, chars) ==
    /\ k \in done[Here]
    /\ k[2] = "INS" => k[3] \in Ids(chars)
    /\ k[2] = "DEL" => k[3] \notin Ids(Visible(chars))

\* C21 (repaint after integration): after an inbound operation that execute
\* integrates, the inbound thread has released the Mutex when it sends the
\* Null input; an inbound operation that fails sends none; and the main loop
\* (which never exits on Escape here) eventually receives the Null input and
\* draws text() of a seq that reflects the operation.
RepaintAfterIntegration ==
    /\ [][/\ inbound'[Here].pc = "notify" => lock'[Here] # "inbound"
          /\ (inbound[Here].pc # "notify" /\ inbound'[Here].pc = "notify")
                 => inbound[Here].pc = "execute"
          /\ (inbound[Here].pc = "execute" /\ inbound'[Here].pc # "execute")
                 => /\ last'.call = "execute" /\ last'.site = Here
                    /\ inbound'[Here].pc = "notify" <=> last'.kind = "Ok"
         ]_vars
    /\ \A k \in PeerKeys :
           Signalling(k) ~> (/\ ~Signalling(k)
                             /\ ui[Here].pc = "drawing"
                             /\ Reflects(k, sites[Here].seq))

====
